---- MODULE Spec2Model ----
(***************************************************************************)
(* Model of the per-test coverage collector of tia-js                      *)
(* (examples/python-backend/pytest_tia_plugin.py) together with the host   *)
(* runner that delivers configure / setup / teardown / sessionfinish       *)
(* events to it and the line tracer (coverage.Coverage) it drives.         *)
(*                                                                         *)
(* Strings are sequences of one-character strings so that the regular      *)
(* expressions and path tests of the source can be computed.               *)
(***************************************************************************)
EXTENDS Integers, Sequences, FiniteSets, TLC

(***************************************************************************)
(* Bounds of the model.                                                    *)
(***************************************************************************)
MaxSessions == 4
MaxLine == 2
MaxN == 3
MaxBody == 2
MaxCreates == 3
ScenarioLines == 30

(***************************************************************************)
(* Characters and generic string helpers.                                  *)
(***************************************************************************)
Digits == <<"0", "1", "2", "3", "4", "5", "6", "7", "8", "9">>

Alnum ==
  {"a","b","c","d","e","f","g","h","i","j","k","l","m","n","o","p","q","r",
   "s","t","u","v","w","x","y","z",
   "A","B","C","D","E","F","G","H","I","J","K","L","M","N","O","P","Q","R",
   "S","T","U","V","W","X","Y","Z",
   "0","1","2","3","4","5","6","7","8","9"}

Whitespace == {" ", "\t", "\n", "\r"}

StartsWith(s, p) == Len(s) >= Len(p) /\ SubSeq(s, 1, Len(p)) = p

EndsWith(s, p) == Len(s) >= Len(p) /\ SubSeq(s, Len(s) - Len(p) + 1, Len(s)) = p

\* Python's  p in s  on strings.
Contains(s, p) ==
  \E i \in 1..(Len(s) - Len(p) + 1) : SubSeq(s, i, i + Len(p) - 1) = p

\* Python's  str(i)  for a natural number.
RECURSIVE Str(_)
Str(i) == IF i < 10 THEN <<Digits[i + 1]>>
          ELSE Str(i \div 10) \o <<Digits[(i % 10) + 1]>>

\* Python's  s.rstrip().
RECURSIVE RStrip(_)
RStrip(s) == IF s # <<>> /\ s[Len(s)] \in Whitespace
             THEN RStrip(SubSeq(s, 1, Len(s) - 1))
             ELSE s

\* Python's  sorted(S)  for a finite set of integers.
RECURSIVE Sorted(_)
Sorted(S) == IF S = {} THEN <<>>
             ELSE LET m == CHOOSE x \in S : \A y \in S : x <= y
                  IN <<m>> \o Sorted(S \ {m})

\* re.sub(r'[^a-zA-Z0-9\-]', '_', s): the hyphen is let through.
ReplaceNonAlnum_hyphen(s) ==
  [i \in 1..Len(s) |-> IF s[i] \in Alnum \cup {"-"} THEN s[i] ELSE "_"]

\* re.sub(r'[^a-zA-Z0-9]', '_', s)
ReplaceNonAlnum(s) == [i \in 1..Len(s) |-> IF s[i] \in Alnum THEN s[i] ELSE "_"]

\* re.sub(r'^test_', '', s)   and   re.sub(r'^Test', '', s)
RemovePrefix(s, p) == IF StartsWith(s, p) THEN SubSeq(s, Len(p) + 1, Len(s)) ELSE s

\* re.sub(r'Test$', '', s): $ matches at the end and before a final newline.
RemoveSuffix(s, p) ==
  IF EndsWith(s, p) THEN SubSeq(s, 1, Len(s) - Len(p))
  ELSE IF EndsWith(s, p \o <<"\n">>)
       THEN SubSeq(s, 1, Len(s) - Len(p) - 1) \o <<"\n">>
       ELSE s

\* End of the match of  .*\]$  started after position i, or 0: the closing
\* bracket is the last character, or the one before a final newline, and
\* the dot matches no newline.
BracketEnd(s, i) ==
  LET n == Len(s)
      j == IF n > i /\ s[n] = "]" THEN n
           ELSE IF n > i + 1 /\ s[n] = "\n" /\ s[n - 1] = "]" THEN n - 1
           ELSE 0
  IN IF j # 0 /\ \A k \in (i + 1)..(j - 1) : s[k] # "\n" THEN j ELSE 0

\* re.sub(r'\[.*\]$', '', s): the leftmost opening bracket that matches.
RemoveBrackets(s) ==
  LET starts == {i \in 1..Len(s) : s[i] = "[" /\ BracketEnd(s, i) # 0}
  IN IF starts = {} THEN s
     ELSE LET i == CHOOSE x \in starts : \A y \in starts : x <= y
          IN SubSeq(s, 1, i - 1) \o SubSeq(s, BracketEnd(s, i) + 1, Len(s))

(***************************************************************************)
(* Identifier sanitizer.                                                   *)
(***************************************************************************)
\* Lines 154-160 with a pattern that cuts at the last opening bracket
\* instead of the first.
sanitize_test_name_last_bracket(test_name) ==
  LET s == RemovePrefix(test_name, <<"t","e","s","t","_">>)
      starts == {i \in 1..Len(s) : s[i] = "[" /\ BracketEnd(s, i) # 0}
  IN ReplaceNonAlnum(
       IF starts = {} THEN s
       ELSE SubSeq(s, 1, (CHOOSE x \in starts : \A y \in starts : y <= x) - 1))

\* Lines 154-160.
sanitize_test_name(test_name) ==
  ReplaceNonAlnum(RemoveBrackets(RemovePrefix(test_name, <<"t","e","s","t","_">>)))

\* Lines 162-168 without the removal of the trailing Test (line 166).
sanitize_class_name_prefix_only(class_name) ==
  ReplaceNonAlnum(RemovePrefix(class_name, <<"T","e","s","t">>))

\* Lines 162-168.
sanitize_class_name(class_name) ==
  ReplaceNonAlnum(RemoveSuffix(RemovePrefix(class_name, <<"T","e","s","t">>),
                               <<"T","e","s","t">>))

(***************************************************************************)
(* The world the collector runs in: the working directory, the measured    *)
(* source file, the tests of the suite.                                    *)
(***************************************************************************)
Cwd == <<"/", "w">>

AppPy == Cwd \o <<"/", "a", "p", "p", ".", "p", "y">>

\* Files the tracer can report as measured (source=['.'], lines 34-37).
SrcPaths == {AppPy}

\* The other files the tracer can measure below the working directory
\* (source=['.'] without tests/*, pytest_tia_plugin.py and .tia/*, lines
\* 34-37): a second source file, a test module outside tests/, and a source
\* file that is no test but has the letters "test" in its name.
LibPy == Cwd \o <<"/", "l", "i", "b", ".", "p", "y">>

TestXPy == Cwd \o <<"/", "t", "e", "s", "t", "_", "x", ".", "p", "y">>

LatestPy == Cwd \o <<"/", "l", "a", "t", "e", "s", "t", ".", "p", "y">>

ConvPaths == {AppPy, LibPy, TestXPy, LatestPy}

\* The test files among them.
TestFiles == {TestXPy}

\* The collector's own source, which the tracer omits.
PluginPy ==
  Cwd \o <<"/","p","y","t","e","s","t","_","t","i","a","_","p","l","u","g","i","n",".","p","y">>

LineNos == 1..MaxLine

\* Text of line i of a source file, as readlines() returns it.
LineText(i) == IF i % 2 = 1 THEN <<"x", " ", "\n">> ELSE <<"y", "=", "1", "\n">>

FileOf(n) == [readable |-> TRUE, lines |-> [i \in 1..n |-> LineText(i)]]

Unreadable == [readable |-> FALSE, lines |-> <<>>]

\* os.path.relpath(filename) for a file below the working directory.
RelPath(filename) == SubSeq(filename, Len(Cwd) + 2, Len(filename))

\* The file a relative path names when it is opened (line 122).
AbsPath(filepath) == Cwd \o <<"/">> \o filepath

NoClass == <<"N", "o", "C", "l", "a", "s", "s">>

\* The test items of the suite: item.name, item.cls.__name__ (or no class).
Items ==
  << [name |-> <<"t","e","s","t","_","g","e","t","_","u","s","e","r","s">>,
      hasCls |-> TRUE,
      cls |-> <<"T","e","s","t","U","s","e","r","s","A","P","I">>],
     [name |-> <<"t","e","s","t","_","g","e","t","_","u","s","e","r","s","[","1","]">>,
      hasCls |-> TRUE,
      cls |-> <<"T","e","s","t","U","s","e","r","s","A","P","I">>],
     [name |-> <<"t","e","s","t","_","b">>, hasCls |-> FALSE, cls |-> <<>>] >>

ItemIds == 1..Len(Items)

per_test_coverage_dir ==
  <<".","t","i","a","/","p","e","r","-","t","e","s","t","-","c","o","v","e","r","a","g","e">>

(***************************************************************************)
(* Format converter.                                                       *)
(***************************************************************************)
\* data.measured_files()
measured_files(data) == {p[1] : p \in data}

\* data.lines(filename) or []
lines(data, filename) == {p[2] : p \in {q \in data : q[1] = filename}}

\* Line 94: files the converter skips.
IsSkippedFile(filename) ==
  \/ Contains(filename, <<"t","e","s","t">>)
  \/ EndsWith(filename, <<"p","y","t","e","s","t","_","t","i","a","_",
                          "p","l","u","g","i","n",".","p","y">>)

\* Lines 104-110: the lines of the file that were not executed; empty when
\* the file cannot be read.
missing_lines(fs, filename, executed_lines) ==
  IF fs[filename].readable
  THEN {l \in 1..Len(fs[filename].lines) : l \notin executed_lines}
  ELSE {}

\* Lines 118-152 with the statements built from the executed lines alone
\* (line 131 without the missing lines).
create_file_coverage_executed_only(fs, filepath, executed_lines, missing) ==
  LET f == fs[AbsPath(filepath)]
      file_lines == IF f.readable THEN f.lines ELSE <<>>
      all_lines == Sorted(executed_lines)
      ids == {Str(i) : i \in 0..(Len(all_lines) - 1)}
      lineOf(id) == all_lines[(CHOOSE i \in 0..(Len(all_lines) - 1) : Str(i) = id) + 1]
  IN [path |-> filepath,
      statementMap |->
        [id \in ids |->
           [start |-> [line |-> lineOf(id), column |-> 0],
            end |-> [line |-> lineOf(id),
                     column |-> IF lineOf(id) <= Len(file_lines)
                                THEN Len(RStrip(file_lines[lineOf(id)]))
                                ELSE 0]]],
      fnMap |-> <<>>,
      branchMap |-> <<>>,
      s |-> [id \in ids |-> 1],
      f |-> <<>>,
      b |-> <<>>,
      coverageSchema |-> "python-coverage-tia-1.0.0"]

\* Lines 118-152 with the end column taken from the line as read, trailing
\* whitespace and newline included (line 139 without rstrip).
create_file_coverage_no_rstrip(fs, filepath, executed_lines, missing) ==
  LET f == fs[AbsPath(filepath)]
      file_lines == IF f.readable THEN f.lines ELSE <<>>
      all_lines == Sorted(executed_lines \cup missing)
      ids == {Str(i) : i \in 0..(Len(all_lines) - 1)}
      lineOf(id) == all_lines[(CHOOSE i \in 0..(Len(all_lines) - 1) : Str(i) = id) + 1]
  IN [path |-> filepath,
      statementMap |->
        [id \in ids |->
           [start |-> [line |-> lineOf(id), column |-> 0],
            end |-> [line |-> lineOf(id),
                     column |-> IF lineOf(id) <= Len(file_lines)
                                THEN Len(file_lines[lineOf(id)])
                                ELSE 0]]],
      fnMap |-> <<>>,
      branchMap |-> <<>>,
      s |-> [id \in ids |-> IF lineOf(id) \in executed_lines THEN 1 ELSE 0],
      f |-> <<>>,
      b |-> <<>>,
      coverageSchema |-> "python-coverage-tia-1.0.0"]

\* Lines 118-152 with the statements numbered in the order executed lines
\* first, missing lines next (line 131 as a concatenation of sorted lists).
create_file_coverage_concat(fs, filepath, executed_lines, missing) ==
  LET f == fs[AbsPath(filepath)]
      file_lines == IF f.readable THEN f.lines ELSE <<>>
      all_lines == Sorted(executed_lines) \o Sorted(missing)
      ids == {Str(i) : i \in 0..(Len(all_lines) - 1)}
      lineOf(id) == all_lines[(CHOOSE i \in 0..(Len(all_lines) - 1) : Str(i) = id) + 1]
  IN [path |-> filepath,
      statementMap |->
        [id \in ids |->
           [start |-> [line |-> lineOf(id), column |-> 0],
            end |-> [line |-> lineOf(id),
                     column |-> IF lineOf(id) <= Len(file_lines)
                                THEN Len(RStrip(file_lines[lineOf(id)]))
                                ELSE 0]]],
      fnMap |-> <<>>,
      branchMap |-> <<>>,
      s |-> [id \in ids |-> IF lineOf(id) \in executed_lines THEN 1 ELSE 0],
      f |-> <<>>,
      b |-> <<>>,
      coverageSchema |-> "python-coverage-tia-1.0.0"]

\* Lines 118-152.
create_file_coverage(fs, filepath, executed_lines, missing) ==
  LET f == fs[AbsPath(filepath)]
      file_lines == IF f.readable THEN f.lines ELSE <<>>
      all_lines == Sorted(executed_lines \cup missing)
      ids == {Str(i) : i \in 0..(Len(all_lines) - 1)}
      lineOf(id) == all_lines[(CHOOSE i \in 0..(Len(all_lines) - 1) : Str(i) = id) + 1]
  IN [path |-> filepath,
      statementMap |->
        [id \in ids |->
           [start |-> [line |-> lineOf(id), column |-> 0],
            end |-> [line |-> lineOf(id),
                     column |-> IF lineOf(id) <= Len(file_lines)
                                THEN Len(RStrip(file_lines[lineOf(id)]))
                                ELSE 0]]],
      fnMap |-> <<>>,
      branchMap |-> <<>>,
      s |-> [id \in ids |-> IF lineOf(id) \in executed_lines THEN 1 ELSE 0],
      f |-> <<>>,
      b |-> <<>>,
      coverageSchema |-> "python-coverage-tia-1.0.0"]

\* Lines 80-116 with a file that cannot be read left out of the bundle.
convert_coverage_to_tia_format_drop_unreadable(fs, data) ==
  LET kept == {f \in measured_files(data) : ~IsSkippedFile(f) /\ fs[f].readable}
  IN [rel_path \in {RelPath(f) : f \in kept} |->
        LET filename == CHOOSE f \in kept : RelPath(f) = rel_path
        IN create_file_coverage(fs, rel_path, lines(data, filename),
                                missing_lines(fs, filename, lines(data, filename)))]

\* Lines 80-116.
convert_coverage_to_tia_format(fs, data) ==
  LET kept == {f \in measured_files(data) : ~IsSkippedFile(f)}
  IN [rel_path \in {RelPath(f) : f \in kept} |->
        LET filename == CHOOSE f \in kept : RelPath(f) = rel_path
        IN create_file_coverage(fs, rel_path, lines(data, filename),
                                missing_lines(fs, filename, lines(data, filename)))]

(***************************************************************************)
(* The demo application (app.py): two in-memory stores and the handlers    *)
(* that create records in them.  A JSON value is a record with its kind;   *)
(* text is written as a sequence of characters.                            *)
(***************************************************************************)
\* Lines 8-11; conftest.py lines 28-32.
InitialUsers ==
  << [id |-> 1, name |-> "John Doe", email |-> "john@example.com"],
     [id |-> 2, name |-> "Jane Smith", email |-> "jane@example.com"] >>

\* Lines 13-17; conftest.py lines 35-40.
InitialProducts ==
  << [id |-> 1, name |-> "Laptop", price |-> "999.99",
      description |-> "High-performance laptop"],
     [id |-> 2, name |-> "Mouse", price |-> "29.99",
      description |-> "Wireless mouse"],
     [id |-> 3, name |-> "Keyboard", price |-> "79.99",
      description |-> "Mechanical keyboard"] >>

\* No request has been made.
NoBody == [kind |-> "none"]

\* The keys the handlers look up, and their characters.
Keys == {"name", "email", "price", "description"}

KeyText == [name |-> <<"n","a","m","e">>,
            email |-> <<"e","m","a","i","l">>,
            price |-> <<"p","r","i","c","e">>,
            description |-> <<"d","e","s","c","r","i","p","t","i","o","n">>]

\* What request.get_json() can return (lines 45, 70): null, an object with
\* any of the keys, an array of key names, a number, a text.
Bodies ==
  {[kind |-> "null"]}
    \cup {[kind |-> "object", fields |-> [k \in S |-> "v"]] : S \in SUBSET Keys}
    \cup {[kind |-> "array", elems |-> S] : S \in SUBSET {"name", "email", "price"}}
    \cup {[kind |-> "number", n |-> n] : n \in {0, 5}}
    \cup {[kind |-> "text", text |-> s] :
            s \in {<<>>, KeyText.name \o <<" ">> \o KeyText.email
                             \o <<" ">> \o KeyText.price}}

\* Python's truth value of a JSON value (not data, lines 46, 71).
Truthy(data) ==
  CASE data.kind = "null" -> FALSE
    [] data.kind = "object" -> DOMAIN data.fields # {}
    [] data.kind = "array" -> data.elems # {}
    [] data.kind = "number" -> data.n # 0
    [] data.kind = "text" -> data.text # <<>>

\* Python's  key in data  is defined for objects (key lookup), arrays
\* (membership) and texts (substring); on a number it raises TypeError.
InDefined(data) == data.kind \in {"object", "array", "text"}

In(key, data) ==
  CASE data.kind = "object" -> key \in DOMAIN data.fields
    [] data.kind = "array" -> key \in data.elems
    [] data.kind = "text" -> Contains(data.text, KeyText[key])

\* Lines 43-55.  The result is the users store and the status answered:
\* 500 stands for the TypeError that line 46 raises on a number and lines
\* 51-52 raise on an array or a text.
create_user(us, data) ==
  IF ~Truthy(data) THEN [store |-> us, status |-> 400]
  ELSE IF ~InDefined(data) THEN [store |-> us, status |-> 500]
  ELSE IF ~In("name", data) \/ ~In("email", data)
       THEN [store |-> us, status |-> 400]
  ELSE IF data.kind # "object" THEN [store |-> us, status |-> 500]
  ELSE [store |-> Append(us, [id |-> Len(us) + 1,
                              name |-> data.fields["name"],
                              email |-> data.fields["email"]]),
        status |-> 201]

\* Lines 68-81.
create_product(ps, data) ==
  IF ~Truthy(data) THEN [store |-> ps, status |-> 400]
  ELSE IF ~InDefined(data) THEN [store |-> ps, status |-> 500]
  ELSE IF ~In("name", data) \/ ~In("price", data)
       THEN [store |-> ps, status |-> 400]
  ELSE IF data.kind # "object" THEN [store |-> ps, status |-> 500]
  ELSE [store |-> Append(ps, [id |-> Len(ps) + 1,
                              name |-> data.fields["name"],
                              price |-> data.fields["price"],
                              description |->
                                IF "description" \in DOMAIN data.fields
                                THEN data.fields["description"] ELSE ""]),
        status |-> 201]

(***************************************************************************)
(* State.                                                                  *)
(*   constructed     TIACoveragePlugin instances constructed so far        *)
(*   registered      instances registered with the host's plugin manager   *)
(*   has_tia_plugin  hasattr(config, '_tia_plugin')                        *)
(*   cov             self.cov: 0 for None, else an index into sessions     *)
(*   current_test    self.current_test: 0 for None, else an item id        *)
(*   sessions        the coverage.Coverage objects created so far, each    *)
(*                   with the item it was created for                      *)
(*   artifacts       the files of .tia/per-test-coverage, by path          *)
(*   src             the source files on disk                              *)
(*   phase, hostItem, skipped   the host runner: the test it is running    *)
(*   lastEvent, trace, raised   the last event delivered, the calls the    *)
(*                   collector made while handling it, and whether a hook  *)
(*                   raised into the host                                  *)
(*   span            <<file, line>> pairs executed since the last setup    *)
(*   fileReport      the report of one file built by the conversion alone  *)
(*   raw, clean      a raw name and what the sanitizer made of it          *)
(*   users, products the in-memory stores of the demo application (app.py) *)
(*   request, response   the JSON body of the last create request and the  *)
(*                   status the application answered with                  *)
(***************************************************************************)
VARIABLES constructed, registered, has_tia_plugin, cov, current_test,
          sessions, artifacts, src, phase, hostItem, skipped,
          lastEvent, trace, raised, span, fileReport, raw, clean,
          users, products, request, response

vars == <<constructed, registered, has_tia_plugin, cov, current_test,
          sessions, artifacts, src, phase, hostItem, skipped,
          lastEvent, trace, raised, span, fileReport, raw, clean,
          users, products, request, response>>

\* The state of the demo application.
store == <<users, products, request, response>>

\* The sanitizer has not been applied to the raw name.
NotSanitized == [done |-> FALSE, hasCls |-> FALSE, test |-> <<>>,
                 cls |-> <<>>, path |-> <<>>]

\* The part of the state the hooks read and write, as one record.
Prog == [constructed |-> constructed, registered |-> registered,
         has_tia_plugin |-> has_tia_plugin, cov |-> cov,
         current_test |-> current_test, sessions |-> sessions,
         artifacts |-> artifacts, trace |-> <<>>, raised |-> FALSE]

\* Outcomes of the calls a teardown makes into the tracer and the disk.
\* A teardown either goes through, or the first call to fail is cov.stop()
\* (line 47), cov.save() (line 86), open() (line 72) or json.dump() (line 73,
\* which leaves a truncated file behind).
Fx == {"ok", "stop_raise", "save_raise", "open_fail", "dump_fail"}

Call(p, name) == [p EXCEPT !.trace = Append(@, name)]

(***************************************************************************)
(* TIACoveragePlugin.                                                      *)
(***************************************************************************)
\* Lines 15-19: a new instance has no session and no current test.
TIACoveragePlugin_init(p) ==
  [Call(p, "init") EXCEPT !.constructed = @ + 1, !.cov = 0, !.current_test = 0]

\* Lines 25-27.
Plugin_pytest_configure(p) == Call(p, "plugin_configure")

\* Lines 29-41 with the tracer of the previous test started again instead of
\* a new one being created.
Plugin_pytest_runtest_setup_reuse(p, item) ==
  IF p.cov = 0
  THEN LET p1 == Call(p, "plugin_setup")
           p2 == [p1 EXCEPT !.current_test = item,
                            !.sessions = Append(@, [started |-> TRUE, data |-> {},
                                                    item |-> item]),
                            !.cov = Len(p1.sessions) + 1]
       IN Call(Call(p2, "start"), "sanitize_test_name")
  ELSE Call(Call([Call(p, "plugin_setup") EXCEPT
                    !.current_test = item,
                    !.sessions[p.cov].started = TRUE,
                    !.sessions[p.cov].item = item],
                 "start"), "sanitize_test_name")

\* Lines 29-41.
Plugin_pytest_runtest_setup(p, item) ==
  LET p1 == Call(p, "plugin_setup")
      p2 == [p1 EXCEPT !.current_test = item,
                       !.sessions = Append(@, [started |-> TRUE, data |-> {},
                                               item |-> item]),
                       !.cov = Len(p1.sessions) + 1]
  IN Call(Call(p2, "start"), "sanitize_test_name")

\* Lines 62-70 with the class name used as it is (line 63 without the
\* sanitizer).
ArtifactPath_raw_class(item) ==
  per_test_coverage_dir \o <<"/">>
    \o (IF item.hasCls THEN item.cls ELSE NoClass)
    \o <<"_", "_">> \o sanitize_test_name(item.name)
    \o <<".", "j", "s", "o", "n">>

\* Path of the artifact of an item (lines 62-70).
ArtifactPath(item) ==
  per_test_coverage_dir \o <<"/">>
    \o sanitize_class_name(IF item.hasCls THEN item.cls ELSE NoClass)
    \o <<"_", "_">> \o sanitize_test_name(item.name)
    \o <<".", "j", "s", "o", "n">>

\* The artifact path of each item of the suite.
PathOf == [i \in ItemIds |-> ArtifactPath(Items[i])]

\* Lines 72-73 with a file that exists left as it is (exclusive creation).
WriteFile_keep(files, path, content) ==
  IF path \in DOMAIN files THEN files
  ELSE [k \in DOMAIN files \cup {path} |-> IF k = path THEN content ELSE files[k]]

\* Lines 72-73 with a file that exists kept and the report written beside it
\* under a numbered name.
WriteFile_beside(files, path, content) ==
  LET target == IF path \in DOMAIN files THEN path \o <<".", "1">> ELSE path
  IN [k \in DOMAIN files \cup {target} |-> IF k = target THEN content ELSE files[k]]

\* Lines 72-73: the per-test-coverage directory after open(filepath, 'w')
\* and json.dump have written the file at path.
WriteFile(files, path, content) ==
  [k \in DOMAIN files \cup {path} |-> IF k = path THEN content ELSE files[k]]

\* Lines 59-78 without the try/except: a failure propagates.
save_test_coverage_uncaught(p, fs, item, fx) ==
  LET p1 == Call(Call(p, "sanitize_test_name"), "sanitize_class_name")
      p2 == Call(p1, "convert")
      bundle == convert_coverage_to_tia_format(fs, p.sessions[p.cov].data)
      p3 == Call(p2, "write")
  IN IF fx = "save_raise" THEN [Call(p2, "raise:save") EXCEPT !.raised = TRUE]
     ELSE IF fx = "open_fail" THEN [Call(p3, "raise:open") EXCEPT !.raised = TRUE]
     ELSE IF fx = "dump_fail"
          THEN [Call(p3, "raise:dump") EXCEPT
                  !.raised = TRUE,
                  !.artifacts = WriteFile(@, PathOf[item],
                                          [complete |-> FALSE, bundle |-> <<>>])]
          ELSE [p3 EXCEPT !.artifacts =
                  WriteFile(@, PathOf[item],
                            [complete |-> TRUE, bundle |-> bundle])]

\* Lines 59-78 with the conversion (line 66) moved before the sanitizer
\* calls (lines 62-63).
save_test_coverage_convert_first(p, fs, item, fx) ==
  LET p1 == Call(p, "convert")
      p2 == Call(Call(p1, "sanitize_test_name"), "sanitize_class_name")
      bundle == convert_coverage_to_tia_format(fs, p.sessions[p.cov].data)
      p3 == Call(p2, "write")
  IN IF fx = "save_raise" THEN Call(Call(p1, "raise:save"), "caught")
     ELSE IF fx = "open_fail" THEN Call(Call(p3, "raise:open"), "caught")
     ELSE IF fx = "dump_fail"
          THEN Call(Call([p3 EXCEPT !.artifacts =
                            WriteFile(@, PathOf[item],
                                      [complete |-> FALSE, bundle |-> <<>>])],
                         "raise:dump"), "caught")
          ELSE [p3 EXCEPT !.artifacts =
                  WriteFile(@, PathOf[item],
                            [complete |-> TRUE, bundle |-> bundle])]

\* Lines 59-78.  Everything raised inside is caught.
save_test_coverage(p, fs, item, fx) ==
  LET p1 == Call(Call(p, "sanitize_test_name"), "sanitize_class_name")
      p2 == Call(p1, "convert")
      bundle == convert_coverage_to_tia_format(fs, p.sessions[p.cov].data)
      p3 == Call(p2, "write")
  IN IF fx = "save_raise" THEN Call(Call(p2, "raise:save"), "caught")
     ELSE IF fx = "open_fail" THEN Call(Call(p3, "raise:open"), "caught")
     ELSE IF fx = "dump_fail"
          THEN Call(Call([p3 EXCEPT !.artifacts =
                            WriteFile(@, PathOf[item],
                                      [complete |-> FALSE, bundle |-> <<>>])],
                         "raise:dump"), "caught")
          ELSE [p3 EXCEPT !.artifacts =
                  WriteFile(@, PathOf[item],
                            [complete |-> TRUE, bundle |-> bundle])]

\* Lines 43-53.
Plugin_pytest_runtest_teardown(p, fs, item, fx) ==
  LET p0 == Call(p, "plugin_teardown")
  IN IF p.cov # 0 /\ p.current_test # 0
     THEN LET p1 == Call(p0, "stop")
          IN IF fx = "stop_raise"
             THEN [Call(p1, "raise:stop") EXCEPT !.raised = TRUE]
             ELSE LET p2 == save_test_coverage(
                              [p1 EXCEPT !.sessions[p.cov].started = FALSE],
                              fs, item, fx)
                  IN IF p2.raised THEN p2 ELSE Call(p2, "sanitize_test_name")
     ELSE p0

\* Lines 55-57 with the collector reset at the end of the session.
Plugin_pytest_sessionfinish_reset(p) ==
  [Call(p, "plugin_sessionfinish") EXCEPT !.cov = 0, !.current_test = 0]

\* Lines 55-57.
Plugin_pytest_sessionfinish(p) == Call(p, "plugin_sessionfinish")

(***************************************************************************)
(* Module-level hooks (lines 171-191).                                     *)
(***************************************************************************)
\* Lines 172-176 without the hasattr guard.
pytest_configure_unguarded(p) ==
  [TIACoveragePlugin_init(p) EXCEPT !.has_tia_plugin = TRUE,
                                    !.registered = @ + 1]

pytest_configure(p) ==
  IF ~p.has_tia_plugin
  THEN [TIACoveragePlugin_init(p) EXCEPT !.has_tia_plugin = TRUE,
                                         !.registered = @ + 1]
  ELSE p

\* Lines 178-181 without the hasattr guard.
pytest_runtest_setup_unguarded(p, item) == Plugin_pytest_runtest_setup(p, item)

pytest_runtest_setup(p, item) ==
  IF p.has_tia_plugin THEN Plugin_pytest_runtest_setup(p, item) ELSE p

pytest_runtest_teardown(p, fs, item, fx) ==
  IF p.has_tia_plugin THEN Plugin_pytest_runtest_teardown(p, fs, item, fx) ELSE p

pytest_sessionfinish(p) ==
  IF p.has_tia_plugin THEN Plugin_pytest_sessionfinish(p) ELSE p

(***************************************************************************)
(* The host runner.  The module is registered as a plugin by conftest.py   *)
(* (pytest_plugins), and the instance it creates is registered as a plugin *)
(* too (line 176), so the host calls the hooks of both: the instance's     *)
(* first (last registered, first called), then the module's; a hook that   *)
(* raises ends the call.                                                   *)
(***************************************************************************)
DispatchConfigure(p) ==
  LET p1 == IF p.registered > 0 THEN Plugin_pytest_configure(p) ELSE p
      p2 == pytest_configure(p1)
  IN IF p2.registered > p1.registered THEN Plugin_pytest_configure(p2) ELSE p2

DispatchSetup(p, item) ==
  LET p1 == IF p.registered > 0 THEN Plugin_pytest_runtest_setup(p, item) ELSE p
  IN pytest_runtest_setup(p1, item)

DispatchTeardown(p, fs, item, fx1, fx2) ==
  LET p1 == IF p.registered > 0
            THEN Plugin_pytest_runtest_teardown(p, fs, item, fx1) ELSE p
  IN IF p1.raised THEN p1 ELSE pytest_runtest_teardown(p1, fs, item, fx2)

DispatchSessionFinish(p) ==
  LET p1 == IF p.registered > 0 THEN Plugin_pytest_sessionfinish(p) ELSE p
  IN pytest_sessionfinish(p1)

\* The new state of the collector after an event.
Commit(p, event) ==
  /\ constructed' = p.constructed
  /\ registered' = p.registered
  /\ has_tia_plugin' = p.has_tia_plugin
  /\ cov' = p.cov
  /\ current_test' = p.current_test
  /\ sessions' = p.sessions
  /\ artifacts' = p.artifacts
  /\ trace' = p.trace
  /\ raised' = p.raised
  /\ lastEvent' = event

Init ==
  /\ constructed = 0
  /\ registered = 0
  /\ has_tia_plugin = FALSE
  /\ cov = 0
  /\ current_test = 0
  /\ sessions = <<>>
  /\ artifacts = <<>>
  /\ src = [f \in SrcPaths |-> FileOf(MaxLine)]
  /\ phase = "idle"
  /\ hostItem = 0
  /\ skipped = FALSE
  /\ lastEvent = "none"
  /\ trace = <<>>
  /\ raised = FALSE
  /\ span = {}
  /\ fileReport = <<>>
  /\ raw = <<>>
  /\ clean = NotSanitized
  /\ users = InitialUsers
  /\ products = InitialProducts
  /\ request = NoBody
  /\ response = 0

\* The host delivers pytest_configure.
Configure ==
  /\ phase # "finished"
  /\ Commit(DispatchConfigure(Prog), "configure")
  /\ UNCHANGED <<src, phase, hostItem, skipped, span, fileReport, raw, clean>>
  /\ UNCHANGED store

\* The host starts a test: it delivers pytest_runtest_setup, unless an
\* earlier hook implementation skipped the test.
TestSetup(item, skip) ==
  /\ phase = "idle"
  /\ Len(sessions) + 2 <= MaxSessions
  /\ phase' = "running"
  /\ hostItem' = item
  /\ skipped' = skip
  /\ span' = {}
  /\ Commit(IF skip THEN Prog ELSE DispatchSetup(Prog, item), "setup")
  /\ UNCHANGED <<src, fileReport, raw, clean>>
  /\ UNCHANGED store

\* The tracer that records: the one started last among those started and
\* not stopped (starting a tracer pauses the one that was recording).
Recording == IF \E i \in 1..Len(sessions) : sessions[i].started
             THEN CHOOSE i \in 1..Len(sessions) :
                    /\ sessions[i].started
                    /\ \A j \in 1..Len(sessions) : sessions[j].started => j <= i
             ELSE 0

\* The body of the running test executes a line of a source file.
Execute(f, l) ==
  /\ phase = "running"
  /\ ~skipped
  /\ span' = span \cup {<<f, l>>}
  /\ sessions' = [i \in 1..Len(sessions) |->
                    IF i = Recording
                    THEN [sessions[i] EXCEPT !.data = @ \cup {<<f, l>>}]
                    ELSE sessions[i]]
  /\ lastEvent' = "execute"
  /\ trace' = <<>>
  /\ raised' = FALSE
  /\ UNCHANGED <<constructed, registered, has_tia_plugin, cov, current_test,
                 artifacts, src, phase, hostItem, skipped, fileReport, raw,
                 clean>>
  /\ UNCHANGED store

\* The host ends the running test: it delivers pytest_runtest_teardown.
TestTeardown(fx1, fx2) ==
  /\ phase = "running"
  /\ phase' = "idle"
  /\ Commit(DispatchTeardown(Prog, src, hostItem, fx1, fx2), "teardown")
  /\ UNCHANGED <<src, hostItem, skipped, span, fileReport, raw, clean>>
  /\ UNCHANGED store

\* The host delivers pytest_sessionfinish, its last event: after the last
\* test, or in the middle of one when the run is interrupted.
SessionFinish ==
  /\ phase # "finished"
  /\ phase' = "finished"
  /\ Commit(DispatchSessionFinish(Prog), "sessionfinish")
  /\ UNCHANGED <<src, hostItem, skipped, span, fileReport, raw, clean>>
  /\ UNCHANGED store

Next ==
  \/ Configure
  \/ \E item \in ItemIds, skip \in BOOLEAN : TestSetup(item, skip)
  \/ \E f \in SrcPaths, l \in LineNos : Execute(f, l)
  \/ \E fx1 \in Fx, fx2 \in Fx : TestTeardown(fx1, fx2)
  \/ SessionFinish

Spec == Init /\ [][Next]_vars

(***************************************************************************)
(* The conversion on its own: a collector whose tracer has just been       *)
(* stopped with any measurement, in front of any content of the source     *)
(* files, builds the report of a file (lines 100-114) or saves the         *)
(* coverage of its test (lines 59-78).                                     *)
(***************************************************************************)
InitConv ==
  /\ constructed = 1
  /\ registered = 1
  /\ has_tia_plugin = TRUE
  /\ cov = 1
  /\ current_test \in ItemIds
  /\ hostItem = current_test
  /\ \E data \in SUBSET ((SrcPaths \X (1..MaxN))
                           \cup ((ConvPaths \ SrcPaths) \X {1})) :
       /\ sessions = <<[started |-> FALSE, data |-> data, item |-> current_test]>>
       /\ span = data
  /\ artifacts = <<>>
  /\ \E app \in {FileOf(n) : n \in 0..MaxN} \cup {Unreadable},
        lib \in {FileOf(1), Unreadable} :
       src = [f \in ConvPaths |-> IF f = AppPy THEN app
                                  ELSE IF f = LibPy THEN lib
                                  ELSE FileOf(1)]
  /\ phase = "converting"
  /\ skipped = FALSE
  /\ lastEvent = "none"
  /\ trace = <<>>
  /\ raised = FALSE
  /\ fileReport = <<>>
  /\ raw = <<>>
  /\ clean = NotSanitized
  /\ users = InitialUsers
  /\ products = InitialProducts
  /\ request = NoBody
  /\ response = 0

\* Lines 100-114 for one file: its executed lines, its missing lines, its
\* report.
FileReport(filename) ==
  /\ lastEvent = "none"
  /\ lastEvent' = "report"
  /\ fileReport' =
       create_file_coverage(src, RelPath(filename),
                            lines(sessions[cov].data, filename),
                            missing_lines(src, filename,
                                          lines(sessions[cov].data, filename)))
  /\ UNCHANGED <<constructed, registered, has_tia_plugin, cov, current_test,
                 sessions, artifacts, src, phase, hostItem, skipped, trace,
                 raised, span, raw, clean>>
  /\ UNCHANGED store

\* Lines 59-78 for the collector's test.
SaveCoverage(fx) ==
  /\ lastEvent = "none"
  /\ fx # "stop_raise"
  /\ Commit(save_test_coverage(Prog, src, hostItem, fx), "save")
  /\ UNCHANGED <<src, phase, hostItem, skipped, span, fileReport, raw, clean>>
  /\ UNCHANGED store

NextConv ==
  \/ \E filename \in SrcPaths : FileReport(filename)
  \/ \E fx \in Fx : SaveCoverage(fx)

SpecConv == InitConv /\ [][NextConv]_vars

(***************************************************************************)
(* One test from end to end: the host configures the collector, sets up    *)
(* the first test of the session, the test executes a run of consecutive   *)
(* lines of a source file of ScenarioLines lines, and the host tears the   *)
(* test down.                                                              *)
(***************************************************************************)
InitE2E ==
  /\ constructed = 0
  /\ registered = 0
  /\ has_tia_plugin = FALSE
  /\ cov = 0
  /\ current_test = 0
  /\ sessions = <<>>
  /\ artifacts = <<>>
  /\ src = [f \in SrcPaths |-> FileOf(ScenarioLines)]
  /\ phase = "idle"
  /\ hostItem = 0
  /\ skipped = FALSE
  /\ lastEvent = "none"
  /\ trace = <<>>
  /\ raised = FALSE
  /\ span = {}
  /\ fileReport = <<>>
  /\ raw = <<>>
  /\ clean = NotSanitized
  /\ users = InitialUsers
  /\ products = InitialProducts
  /\ request = NoBody
  /\ response = 0

\* The body of the running test executes lines a..b of a source file.
ExecuteLines(f, a, b) ==
  /\ phase = "running"
  /\ ~skipped
  /\ span = {}
  /\ a <= b
  /\ span' = {<<f, l>> : l \in a..b}
  /\ sessions' = [i \in 1..Len(sessions) |->
                    IF i = Recording
                    THEN [sessions[i] EXCEPT !.data = @ \cup {<<f, l>> : l \in a..b}]
                    ELSE sessions[i]]
  /\ lastEvent' = "execute"
  /\ trace' = <<>>
  /\ raised' = FALSE
  /\ UNCHANGED <<constructed, registered, has_tia_plugin, cov, current_test,
                 artifacts, src, phase, hostItem, skipped, fileReport, raw,
                 clean>>
  /\ UNCHANGED store

NextE2E ==
  \/ Configure
  \/ \E item \in ItemIds, skip \in BOOLEAN : sessions = <<>> /\ TestSetup(item, skip)
  \/ \E f \in SrcPaths, a \in 1..ScenarioLines, b \in 1..ScenarioLines :
       ExecuteLines(f, a, b)
  \/ \E fx1 \in Fx, fx2 \in Fx : TestTeardown(fx1, fx2)

SpecE2E == InitE2E /\ [][NextE2E]_vars

(***************************************************************************)
(* The demo application on its own: from the reset state, clients post     *)
(* create requests with any JSON body, one after the other.                *)
(***************************************************************************)
InitStore ==
  /\ constructed = 0
  /\ registered = 0
  /\ has_tia_plugin = FALSE
  /\ cov = 0
  /\ current_test = 0
  /\ sessions = <<>>
  /\ artifacts = <<>>
  /\ src = [f \in SrcPaths |-> FileOf(MaxLine)]
  /\ phase = "serving"
  /\ hostItem = 0
  /\ skipped = FALSE
  /\ lastEvent = "reset"
  /\ trace = <<>>
  /\ raised = FALSE
  /\ span = {}
  /\ fileReport = <<>>
  /\ raw = <<>>
  /\ clean = NotSanitized
  /\ users = InitialUsers
  /\ products = InitialProducts
  /\ request = NoBody
  /\ response = 0

\* POST /api/users with the JSON body data (lines 43-55).
CreateUser(data) ==
  /\ Len(users) + Len(products) < Len(InitialUsers) + Len(InitialProducts) + MaxCreates
  /\ users' = create_user(users, data).store
  /\ response' = create_user(users, data).status
  /\ request' = data
  /\ lastEvent' = "create_user"
  /\ UNCHANGED <<constructed, registered, has_tia_plugin, cov, current_test,
                 sessions, artifacts, src, phase, hostItem, skipped, trace,
                 raised, span, fileReport, raw, clean, products>>

\* POST /api/products with the JSON body data (lines 68-81).
CreateProduct(data) ==
  /\ Len(users) + Len(products) < Len(InitialUsers) + Len(InitialProducts) + MaxCreates
  /\ products' = create_product(products, data).store
  /\ response' = create_product(products, data).status
  /\ request' = data
  /\ lastEvent' = "create_product"
  /\ UNCHANGED <<constructed, registered, has_tia_plugin, cov, current_test,
                 sessions, artifacts, src, phase, hostItem, skipped, trace,
                 raised, span, fileReport, raw, clean, users>>

\* The reset_data fixture (conftest.py lines 21-42).
ResetData ==
  /\ users' = InitialUsers
  /\ products' = InitialProducts
  /\ request' = NoBody
  /\ response' = 0
  /\ lastEvent' = "reset"
  /\ UNCHANGED <<constructed, registered, has_tia_plugin, cov, current_test,
                 sessions, artifacts, src, phase, hostItem, skipped, trace,
                 raised, span, fileReport, raw, clean>>

NextStore ==
  \/ \E data \in Bodies : CreateUser(data)
  \/ \E data \in Bodies : CreateProduct(data)
  \/ ResetData

SpecStore == InitStore /\ [][NextStore]_vars

(***************************************************************************)
(* The sanitizer on its own: a configured collector is handed any raw      *)
(* name, as the name of a test and as the name of its class, and derives   *)
(* the parts of the artifact's name from it (lines 62-63, 69-70).          *)
(***************************************************************************)
\* Characters of raw names: a letter, the underscore, a character outside
\* [A-Za-z0-9_], the brackets of a parametrization.
SanAlphabet == {"a", "_", "-", "[", "]"}

NamePrefixes == {<<>>, <<"t","e","s","t","_">>, <<"T","e","s","t">>,
                 <<"t","e","s","t","_","t","e","s","t","_">>}

NameSuffixes == {<<>>, <<"T","e","s","t">>, <<"[","p","]">>,
                 <<"[","p","]","T","e","s","t">>}

NameBodies == UNION {[1..k -> SanAlphabet] : k \in 0..MaxBody}

\* item.name and item.cls.__name__ as the host can hand them over.
RawNames ==
  {p \o b \o s : p \in NamePrefixes, b \in NameBodies, s \in NameSuffixes}
    \cup {<<"t","e","s","t","_","f","o","o","_","b","a","r","[","p","a","r","a","m","]">>,
          <<"T","e","s","t","W","i","d","g","e","t">>,
          <<"W","i","d","g","e","t","T","e","s","t">>}

InitSan ==
  /\ constructed = 1
  /\ registered = 1
  /\ has_tia_plugin = TRUE
  /\ cov = 0
  /\ current_test = 0
  /\ sessions = <<>>
  /\ artifacts = <<>>
  /\ src = [f \in SrcPaths |-> FileOf(MaxLine)]
  /\ phase = "sanitizing"
  /\ hostItem = 0
  /\ skipped = FALSE
  /\ lastEvent = "none"
  /\ trace = <<>>
  /\ raised = FALSE
  /\ span = {}
  /\ fileReport = <<>>
  /\ raw \in RawNames
  /\ clean = NotSanitized
  /\ users = InitialUsers
  /\ products = InitialProducts
  /\ request = NoBody
  /\ response = 0

\* Lines 62-63 and 69-70 for an item whose name and class name are raw (or
\* that has no class).
Sanitize(hasCls) ==
  /\ ~clean.done
  /\ clean' = [done |-> TRUE,
               hasCls |-> hasCls,
               test |-> sanitize_test_name(raw),
               cls |-> sanitize_class_name(raw),
               path |-> ArtifactPath([name |-> raw, hasCls |-> hasCls,
                                      cls |-> raw])]
  /\ lastEvent' = "sanitize"
  /\ UNCHANGED <<constructed, registered, has_tia_plugin, cov, current_test,
                 sessions, artifacts, src, phase, hostItem, skipped, trace,
                 raised, span, fileReport, raw>>
  /\ UNCHANGED store

NextSan == \E hasCls \in BOOLEAN : Sanitize(hasCls)

SpecSan == InitSan /\ [][NextSan]_vars

(***************************************************************************)
(* Vocabulary of the properties.                                           *)
(***************************************************************************)
Has(tr, x) == \E i \in 1..Len(tr) : tr[i] = x

\* The collector is measuring: its current tracer is running.
Measuring == cov # 0 /\ sessions[cov].started

Active == {i \in 1..Len(sessions) : sessions[i].started}

\* The last write of the event went through: line 73 returned and line 52
\* followed.
LastWriteOk(tr) ==
  /\ Has(tr, "write")
  /\ LET i == CHOOSE k \in 1..Len(tr) :
                /\ tr[k] = "write"
                /\ \A j \in 1..Len(tr) : tr[j] = "write" => j <= k
     IN i < Len(tr) /\ tr[i + 1] = "sanitize_test_name"

\* The calls of each invocation of the collector's teardown in an event.
Segments(tr) ==
  LET marks == {i \in 1..Len(tr) : tr[i] = "plugin_teardown"}
      stop(i) == IF \E j \in marks : j > i
                 THEN (CHOOSE j \in marks : j > i /\ \A k \in marks : k > i => j <= k) - 1
                 ELSE Len(tr)
  IN {SubSeq(tr, i + 1, stop(i)) : i \in marks}

\* The executions of an item that have ended: the tracers created for it
\* and stopped by its teardown; the last of them.
Executions(i) ==
  {k \in 1..Len(sessions) : sessions[k].item = i /\ ~sessions[k].started}

LastExecution(i) ==
  CHOOSE k \in Executions(i) : \A j \in Executions(i) : j <= k

\* Hit counts of an artifact, as <<file, line, count>> triples.
Hits(a) ==
  UNION {{<<AbsPath(rp), a.bundle[rp].statementMap[id].start.line, a.bundle[rp].s[id]>> :
            id \in DOMAIN a.bundle[rp].s} : rp \in DOMAIN a.bundle}

(***************************************************************************)
(* Properties.                                                             *)
(***************************************************************************)

\* C1: no cross-test leakage.  When the teardown of a test whose setup was
\* delivered has written its artifact, the artifact gives hit count 1 only
\* to lines executed between that setup and that teardown; a line executed
\* only by an earlier test has hit count 0 (or no entry) in it.
NoCrossTestLeakage ==
  (lastEvent = "teardown" /\ ~skipped /\ LastWriteOk(trace)
     /\ artifacts[PathOf[hostItem]].complete)
  => \A h \in Hits(artifacts[PathOf[hostItem]]) :
       h[3] = 1 => <<h[1], h[2]>> \in span

\* A second test has written its artifact, an earlier test of another item
\* executed a line the second did not, and the artifact counts it 0.
NoCrossTestLeakageWitness ==
  /\ lastEvent = "teardown" /\ ~skipped /\ LastWriteOk(trace)
  /\ artifacts[PathOf[hostItem]].complete
  /\ span # {}
  /\ \E i \in 1..Len(sessions) :
       /\ i < cov
       /\ sessions[i].item # hostItem
       /\ \E pr \in sessions[i].data :
            /\ pr \notin span
            /\ <<pr[1], pr[2], 0>> \in Hits(artifacts[PathOf[hostItem]])

\* C2: at most one tracer session is started and not yet stopped.
AtMostOneActiveSession == Cardinality(Active) <= 1

\* C3: a teardown that fires while the collector is not measuring is a
\* no-op: it stops no tracer, converts nothing and writes no artifact.
TeardownWhileIdleIsNoOp ==
  [][(phase = "running" /\ lastEvent' = "teardown" /\ ~Measuring)
       => /\ sessions' = sessions
          /\ artifacts' = artifacts
          /\ ~Has(trace', "stop")
          /\ ~Has(trace', "convert")
          /\ ~Has(trace', "write")]_vars

\* C4: the teardown hook never raises into the host, whatever fails in the
\* teardown chain (tracer stop, conversion, sanitizer, writer).
TeardownNeverRaises == lastEvent = "teardown" => ~raised

\* C5: a failure of the artifact write (open or json.dump) is caught inside
\* the hook; the hook raises into the host exactly when it would have with
\* a successful write, that is when the tracer's stop() raised.
WriteFailureIsSwallowed ==
  lastEvent = "teardown"
  => /\ \A i \in 1..Len(trace) :
          trace[i] \in {"raise:open", "raise:dump"}
          => i < Len(trace) /\ trace[i + 1] = "caught"
     /\ raised <=> Has(trace, "raise:stop")

\* A teardown in which json.dump failed and the hook returned normally.
WriteFailureIsSwallowedWitness ==
  /\ lastEvent = "teardown"
  /\ Has(trace, "raise:dump")
  /\ ~raised
  /\ ~artifacts[PathOf[hostItem]].complete

\* C6: every session created at a setup is stopped by the matching
\* teardown: after a teardown in which stop() did not raise no tracer is
\* left running.
SessionStoppedAtMatchingTeardown ==
  (lastEvent = "teardown" /\ ~Has(trace, "raise:stop")) => Active = {}

TeardownOrders ==
  LET head == <<"stop", "sanitize_test_name", "sanitize_class_name", "convert">>
  IN { <<>>,
       <<"stop", "raise:stop">>,
       head \o <<"raise:save", "caught", "sanitize_test_name">>,
       head \o <<"write", "raise:open", "caught", "sanitize_test_name">>,
       head \o <<"write", "raise:dump", "caught", "sanitize_test_name">>,
       head \o <<"write", "sanitize_test_name">> }

ConfigureIsIdempotent ==
  [][lastEvent' = "configure"
       => /\ constructed' = 1 /\ registered' = 1 /\ has_tia_plugin'
          /\ has_tia_plugin
               => /\ ~Has(trace', "init")
                  /\ UNCHANGED <<constructed, registered, cov, current_test,
                                 sessions, artifacts>>]_vars

\* A configure delivered again while the collector holds a tracer.
ConfigureIsIdempotentWitness ==
  /\ lastEvent = "configure"
  /\ ~Has(trace, "init")
  /\ constructed = 1 /\ registered = 1
  /\ cov # 0

\* C10 as claimed: for every test that has been executed the directory
\* holds its file, and the content is the report of its last execution.
OneFilePerTestLatestReport ==
  \A i \in ItemIds :
    Executions(i) # {}
    => /\ PathOf[i] \in DOMAIN artifacts
       /\ artifacts[PathOf[i]] =
            [complete |-> TRUE,
             bundle |-> convert_coverage_to_tia_format(
                          src, sessions[LastExecution(i)].data)]

\* C10 amended: a teardown touches only the file <class>__<test>.json of its
\* test, never adds a second file for it, and a write that goes through
\* replaces the content of that file by the report just converted; the file
\* is shared by the tests that sanitize to the same name and a failed write
\* leaves no file, the old file or a truncated one.
RerunOverwritesArtifact ==
  [][lastEvent' = "teardown"
       => /\ DOMAIN artifacts \subseteq DOMAIN artifacts'
          /\ DOMAIN artifacts' \subseteq DOMAIN artifacts \cup {PathOf[hostItem]}
          /\ \A k \in DOMAIN artifacts :
               k # PathOf[hostItem] => artifacts'[k] = artifacts[k]
          /\ LastWriteOk(trace')
               => artifacts'[PathOf[hostItem]] =
                    [complete |-> TRUE,
                     bundle |-> convert_coverage_to_tia_format(
                                  src, sessions'[cov'].data)]]_vars

\* The same item has run twice with different coverage and its file holds
\* the report of the second run.
RerunOverwritesArtifactWitness ==
  /\ lastEvent = "teardown" /\ ~skipped /\ LastWriteOk(trace)
  /\ cov # 0 /\ sessions[cov].data # {}
  /\ \E i \in 1..Len(sessions) :
       /\ i < cov
       /\ sessions[i].item = hostItem
       /\ sessions[i].data # {}
       /\ sessions[i].data # sessions[cov].data
  /\ artifacts[PathOf[hostItem]] =
       [complete |-> TRUE,
        bundle |-> convert_coverage_to_tia_format(src, sessions[cov].data)]

\* C9: statement-map construction.  For a readable file of N lines and an
\* executed set E within 1..N the report has exactly N statements with ids
\* "0".."N-1"; id i is line i+1 (start line = end line) and its hit count
\* is 1 if line i+1 is in E and 0 otherwise.
StatementMapConstruction ==
  (lastEvent = "report" /\ src[AppPy].readable
     /\ lines(sessions[cov].data, AppPy) \subseteq 1..Len(src[AppPy].lines))
  => LET N == Len(src[AppPy].lines)
         E == lines(sessions[cov].data, AppPy)
         r == fileReport
     IN /\ DOMAIN r.statementMap = {Str(i) : i \in 0..(N - 1)}
        /\ DOMAIN r.s = {Str(i) : i \in 0..(N - 1)}
        /\ Cardinality(DOMAIN r.statementMap) = N
        /\ \A i \in 0..(N - 1) :
             /\ r.statementMap[Str(i)].start.line = i + 1
             /\ r.statementMap[Str(i)].end.line = i + 1
             /\ r.s[Str(i)] = IF (i + 1) \in E THEN 1 ELSE 0

\* The report of a file of three lines or more of which lines 1 and 3 were
\* executed.
StatementMapConstructionWitness ==
  /\ lastEvent = "report"
  /\ src[AppPy].readable
  /\ Len(src[AppPy].lines) >= 3
  /\ lines(sessions[cov].data, AppPy) = {1, 3}
  /\ fileReport.path = RelPath(AppPy)
  /\ fileReport.s =
       [id \in {Str(i) : i \in 0..(Len(src[AppPy].lines) - 1)} |->
          IF id \in {<<"0">>, <<"2">>} THEN 1 ELSE 0]

\* C16: a hook invoked when no collector is registered on the host
\* configuration is skipped: it raises nothing, calls nothing, starts and
\* stops no session, writes no artifact and creates no collector.
HookWithoutCollectorIsSkipped ==
  [][(~has_tia_plugin /\ lastEvent' \in {"setup", "teardown", "sessionfinish"})
       => /\ trace' = <<>>
          /\ ~raised'
          /\ UNCHANGED <<constructed, registered, has_tia_plugin, cov,
                         current_test, sessions, artifacts>>]_vars

\* A test has been set up, has executed a line and has been torn down
\* before any configure.
HookWithoutCollectorIsSkippedWitness ==
  /\ lastEvent = "teardown"
  /\ ~has_tia_plugin
  /\ ~skipped
  /\ span # {}
  /\ constructed = 0 /\ sessions = <<>> /\ artifacts = <<>>

\* C20: the session-finish event changes no state: the current session, the
\* current test, the tracers and the artifacts are after it what they were
\* before it, whether the collector is idle or measuring.
SessionFinishChangesNothing ==
  [][lastEvent' = "sessionfinish"
       => UNCHANGED <<constructed, registered, has_tia_plugin, cov,
                      current_test, sessions, artifacts>>]_vars

\* The session has finished in the middle of a measured test, with an
\* artifact of an earlier test on disk.
SessionFinishChangesNothingWitness ==
  /\ lastEvent = "sessionfinish"
  /\ Has(trace, "plugin_sessionfinish")
  /\ Measuring
  /\ current_test # 0
  /\ artifacts # <<>>


SanitizeTestNameSteps ==
  clean.done =>
    LET a == IF Len(raw) >= 5 /\ SubSeq(raw, 1, 5) = <<"t","e","s","t","_">>
             THEN SubSeq(raw, 6, Len(raw)) ELSE raw
        opens == {i \in 1..(Len(a) - 1) : a[i] = "["}
        b == IF a # <<>> /\ a[Len(a)] = "]" /\ opens # {}
             THEN SubSeq(a, 1, (CHOOSE i \in opens : \A j \in opens : i <= j) - 1)
             ELSE a
        c == [i \in 1..Len(b) |-> IF b[i] \in Alnum THEN b[i] ELSE "_"]
    IN /\ clean.test = c
       /\ raw = <<"t","e","s","t","_","f","o","o","_","b","a","r","[","p","a","r","a","m","]">>
            => clean.test = <<"f","o","o","_","b","a","r">>

SanitizeTestNameStepsWitness ==
  /\ clean.done
  /\ raw = <<"t","e","s","t","_","f","o","o","_","b","a","r","[","p","a","r","a","m","]">>
  /\ clean.test = <<"f","o","o","_","b","a","r">>

\* C14: the sanitized class name is the raw name without a leading Test,
\* then without a trailing Test, with every non-alphanumeric character
\* replaced by an underscore; TestWidget and WidgetTest both give Widget;
\* an item without a class gets NoClass as the class part of its artifact.
SanitizeClassNameSteps ==
  clean.done =>
    LET T == <<"T","e","s","t">>
        a == IF Len(raw) >= 4 /\ SubSeq(raw, 1, 4) = T
             THEN SubSeq(raw, 5, Len(raw)) ELSE raw
        b == IF Len(a) >= 4 /\ SubSeq(a, Len(a) - 3, Len(a)) = T
             THEN SubSeq(a, 1, Len(a) - 4) ELSE a
        c == [i \in 1..Len(b) |-> IF b[i] \in Alnum THEN b[i] ELSE "_"]
    IN /\ clean.cls = c
       /\ raw \in {<<"T","e","s","t","W","i","d","g","e","t">>,
                   <<"W","i","d","g","e","t","T","e","s","t">>}
            => clean.cls = <<"W","i","d","g","e","t">>
       /\ clean.path =
            per_test_coverage_dir \o <<"/">>
              \o (IF clean.hasCls THEN clean.cls ELSE <<"N","o","C","l","a","s","s">>)
              \o <<"_","_">> \o clean.test \o <<".","j","s","o","n">>

SanitizeClassNameStepsWitness ==
  /\ clean.done
  /\ raw = <<"W","i","d","g","e","t","T","e","s","t">>
  /\ clean.cls = <<"W","i","d","g","e","t">>
  /\ ~clean.hasCls
  /\ Contains(clean.path, <<"/","N","o","C","l","a","s","s","_","_">>)

\* C15: a measured file that cannot be read does not abort the conversion:
\* its report has one statement per executed line, each with hit count 1,
\* and nothing else; the other kept files are reported as usual and the
\* artifact is written.
ReadFailureDegrades ==
  (lastEvent = "save" /\ ~Has(trace, "caught"))
  => LET data == sessions[cov].data
         kept == {f \in measured_files(data) : ~IsSkippedFile(f)}
     IN /\ PathOf[hostItem] \in DOMAIN artifacts
        /\ artifacts[PathOf[hostItem]].complete
        /\ DOMAIN artifacts[PathOf[hostItem]].bundle = {RelPath(f) : f \in kept}
        /\ \A f \in kept :
             LET r == artifacts[PathOf[hostItem]].bundle[RelPath(f)]
                 E == lines(data, f)
                 L == {r.statementMap[id].start.line : id \in DOMAIN r.statementMap}
             IN IF src[f].readable
                THEN L = E \cup (1..Len(src[f].lines))
                ELSE /\ L = E
                     /\ Cardinality(DOMAIN r.statementMap) = Cardinality(E)
                     /\ DOMAIN r.s = DOMAIN r.statementMap
                     /\ \A id \in DOMAIN r.s : r.s[id] = 1

\* app.py cannot be read, its lines 1 and 3 were executed, lib.py can be
\* read: the artifact holds both reports.
ReadFailureDegradesWitness ==
  /\ lastEvent = "save"
  /\ ~src[AppPy].readable
  /\ src[LibPy].readable
  /\ lines(sessions[cov].data, AppPy) = {1, 3}
  /\ LibPy \in measured_files(sessions[cov].data)
  /\ PathOf[hostItem] \in DOMAIN artifacts
  /\ artifacts[PathOf[hostItem]].complete
  /\ artifacts[PathOf[hostItem]].bundle[RelPath(AppPy)].s =
       [id \in {<<"0">>, <<"1">>} |-> 1]
  /\ DOMAIN artifacts[PathOf[hostItem]].bundle[RelPath(LibPy)].s = {<<"0">>}

\* C17: the artifact written holds a report for every measured file that is
\* neither a test file nor the collector's own source, and for no other.
ReportForEveryNonTestFile ==
  (lastEvent = "save" /\ ~Has(trace, "caught"))
  => /\ PathOf[hostItem] \in DOMAIN artifacts
     /\ DOMAIN artifacts[PathOf[hostItem]].bundle =
          {RelPath(f) : f \in {g \in measured_files(sessions[cov].data) :
                                 g \notin TestFiles /\ g # PluginPy}}

\* C18: every statement of a report starts at column 0 of its line and ends
\* on the same line at the length of the line without its trailing
\* whitespace (1 for an odd line, 3 for an even one), or at column 0 when
\* the line is beyond the lines read from the file.
StatementSpans ==
  lastEvent = "report"
  => \A id \in DOMAIN fileReport.statementMap :
       LET e == fileReport.statementMap[id]
           L == e.start.line
       IN /\ e.start = [line |-> L, column |-> 0]
          /\ e.end.line = L
          /\ e.end.column =
               IF src[AppPy].readable /\ L <= Len(src[AppPy].lines)
               THEN (IF L % 2 = 1 THEN 1 ELSE 3)
               ELSE 0

\* A file of two lines of which lines 2 and 3 were executed.
StatementSpansWitness ==
  /\ lastEvent = "report"
  /\ src[AppPy].readable
  /\ Len(src[AppPy].lines) = 2
  /\ lines(sessions[cov].data, AppPy) = {2, 3}
  /\ fileReport.statementMap[<<"1">>].end = [line |-> 2, column |-> 3]
  /\ fileReport.statementMap[<<"2">>].end = [line |-> 3, column |-> 0]

\* C19: every report is well formed: s and statementMap have the keys
\* "0".."n-1", every hit count is 0 or 1, the lines strictly increase with
\* the id, fnMap, branchMap, f and b are empty and the schema is the fixed
\* version string.
ReportWellFormed ==
  lastEvent = "report"
  => LET r == fileReport
         n == Cardinality(DOMAIN r.statementMap)
     IN /\ DOMAIN r.statementMap = {Str(i) : i \in 0..(n - 1)}
        /\ DOMAIN r.s = DOMAIN r.statementMap
        /\ \A id \in DOMAIN r.s : r.s[id] \in {0, 1}
        /\ \A i \in 0..(n - 1) : \A j \in 0..(n - 1) :
             i < j => r.statementMap[Str(i)].start.line
                        < r.statementMap[Str(j)].start.line
        /\ r.fnMap = <<>> /\ r.branchMap = <<>> /\ r.f = <<>> /\ r.b = <<>>
        /\ r.coverageSchema = "python-coverage-tia-1.0.0"

\* The report of a file that cannot be read, lines 1 and 3 executed.
ReportWellFormedWitness ==
  /\ lastEvent = "report"
  /\ ~src[AppPy].readable
  /\ lines(sessions[cov].data, AppPy) = {1, 3}
  /\ DOMAIN fileReport.s = {<<"0">>, <<"1">>}
  /\ fileReport.statementMap[<<"1">>].start.line = 3

\* C11: the teardown of a test that ran writes the file
\* .tia/per-test-coverage/<class>__<test>.json named after its sanitized
\* class and test names (UsersAPI__get_users.json for test_get_users in
\* TestUsersAPI, NoClass__b.json for test_b outside a class); the report of
\* the source file in it has one statement per line of the file, with hit
\* count 1 exactly for the lines the test executed: for lines 10..15 of a
\* file of 30 lines, 30 statements with hit count 1 for ids "9".."14".
ArtifactNamedAndFilledEndToEnd ==
  (lastEvent = "teardown" /\ ~skipped /\ LastWriteOk(trace))
  => LET name == IF hostItem \in {1, 2}
                 THEN <<"U","s","e","r","s","A","P","I","_","_",
                        "g","e","t","_","u","s","e","r","s",".","j","s","o","n">>
                 ELSE <<"N","o","C","l","a","s","s","_","_","b",".","j","s","o","n">>
         path == <<".","t","i","a","/","p","e","r","-","t","e","s","t","-",
                   "c","o","v","e","r","a","g","e","/">> \o name
         N == Len(src[AppPy].lines)
         E == {l \in 1..N : <<AppPy, l>> \in span}
     IN /\ path \in DOMAIN artifacts
        /\ artifacts[path].complete
        /\ span # {}
             => /\ DOMAIN artifacts[path].bundle = {<<"a","p","p",".","p","y">>}
                /\ LET r == artifacts[path].bundle[<<"a","p","p",".","p","y">>]
                   IN /\ Cardinality(DOMAIN r.statementMap) = N
                      /\ DOMAIN r.s = {Str(i) : i \in 0..(N - 1)}
                      /\ \A i \in 0..(N - 1) :
                           /\ r.statementMap[Str(i)].start.line = i + 1
                           /\ r.s[Str(i)] = IF (i + 1) \in E THEN 1 ELSE 0
                      /\ (N = 30 /\ E = 10..15)
                           => \A id \in DOMAIN r.s :
                                r.s[id] = IF id \in {<<"9">>, <<"1","0">>, <<"1","1">>,
                                                     <<"1","2">>, <<"1","3">>, <<"1","4">>}
                                          THEN 1 ELSE 0

\* test_get_users of TestUsersAPI has executed lines 10..15 of the file of
\* 30 lines and its teardown has written UsersAPI__get_users.json.
ArtifactNamedAndFilledEndToEndWitness ==
  /\ lastEvent = "teardown" /\ ~skipped /\ LastWriteOk(trace)
  /\ hostItem = 1
  /\ Items[hostItem].name = <<"t","e","s","t","_","g","e","t","_","u","s","e","r","s">>
  /\ Len(src[AppPy].lines) = 30
  /\ span = {<<AppPy, l>> : l \in 10..15}
  /\ LET path == <<".","t","i","a","/","p","e","r","-","t","e","s","t","-",
                   "c","o","v","e","r","a","g","e","/",
                   "U","s","e","r","s","A","P","I","_","_",
                   "g","e","t","_","u","s","e","r","s",".","j","s","o","n">>
     IN /\ path \in DOMAIN artifacts
        /\ Cardinality(DOMAIN artifacts[path].bundle[RelPath(AppPy)].statementMap) = 30
        /\ {id \in DOMAIN artifacts[path].bundle[RelPath(AppPy)].s :
              artifacts[path].bundle[RelPath(AppPy)].s[id] = 1}
             = {<<"9">>, <<"1","0">>, <<"1","1">>, <<"1","2">>, <<"1","3">>, <<"1","4">>}

\* The running test shares its file name with another test that has run and
\* left its artifact.
Collides ==
  /\ hostItem # 0
  /\ PathOf[hostItem] \in DOMAIN artifacts
  /\ \E j \in ItemIds \ {hostItem} :
       PathOf[j] = PathOf[hostItem] /\ Executions(j) # {}

StoreIdsAndCreateStatuses ==
  [][lastEvent' \in {"create_user", "create_product"}
       => LET isUser == lastEvent' = "create_user"
              before == IF isUser THEN users ELSE products
              after == IF isUser THEN users' ELSE products'
              required == IF isUser THEN {"name", "email"} ELSE {"name", "price"}
              valid == /\ request'.kind = "object"
                       /\ required \subseteq DOMAIN request'.fields
          IN /\ \A k \in 1..Len(users') : users'[k].id = k
             /\ \A k \in 1..Len(products') : products'[k].id = k
             /\ valid => /\ response' = 201
                         /\ Len(after) = Len(before) + 1
                         /\ SubSeq(after, 1, Len(before)) = before
                         /\ after[Len(after)].id = Len(before) + 1
             /\ ~valid => /\ response' = 400
                          /\ users' = users
                          /\ products' = products]_vars
====
